---- MODULE Spec2Model ----
(***************************************************************************)
(* Key resolution of the fabric-ca CP-ABE fork: the CP-ABE key variants of *)
(* the software crypto provider (package sw: cpabePrivateKey,              *)
(* cpabeMasterKey, cpabeParams) and the key-store helpers of package util  *)
(* (internal/pkg/util/csp.go).                                             *)
(*                                                                         *)
(* Every exported function is one action: the whole call, with the calls   *)
(* it makes to its collaborators (file system, X.509/PEM/JSON parsers,     *)
(* key store, signer construction) recorded in order in call.trace.        *)
(* Outcomes of collaborators that the source does not contain are inputs   *)
(* of the action, drawn from every outcome their interface allows.         *)
(*                                                                         *)
(* Conventions: byte strings and text strings are sequences of byte        *)
(* values; every object is a record; a nil pointer is the record Nil.      *)
(* SHA-256 is modelled as a collision-free digest of its input (two        *)
(* digests are equal exactly when the hashed bytes are equal).             *)
(***************************************************************************)
EXTENDS Integers, Sequences, FiniteSets, TLC

VARIABLES ks, call

vars == <<ks, call>>

----------------------------------------------------------------------------
(* Bounds of the model *)

\* largest number of name/value members in the JSON attribute object
MaxAttrs == 2

----------------------------------------------------------------------------
(* Basic values *)

Nil == [kind |-> "nil"]

NoErr == [kind |-> "noerr"]

Err(msg) == [kind |-> "error", msg |-> msg]

ErrArg(msg, arg) == [kind |-> "error", msg |-> msg, arg |-> arg]

\* errors.WithMessage / errors.Wrap / fmt.Errorf("... %v", err)
Wrap(msg, cause) == [kind |-> "error", msg |-> msg, cause |-> cause]

IsErr(e) == e.kind = "error"

Range(s) == {s[i] : i \in 1..Len(s)}

\* all orders in which the members of the finite set S can be enumerated
Perms(S) == {s \in [1..Cardinality(S) -> S] : Range(s) = S}

\* byte-wise string order, as Go compares strings
RECURSIVE StrLess(_, _)
StrLess(a, b) ==
    IF b = <<>> THEN FALSE
    ELSE IF a = <<>> THEN TRUE
    ELSE IF Head(a) < Head(b) THEN TRUE
    ELSE IF Head(a) > Head(b) THEN FALSE
    ELSE StrLess(Tail(a), Tail(b))

\* crypto/sha256: New, Write..., Sum(nil); the digest is 32 bytes long
Sha256(bytes) == [kind |-> "sha256", size |-> 32, input |-> bytes]

----------------------------------------------------------------------------
(* Protocol-buffer messages of the CP-ABE engine and proto.Marshal          *)
(* (part_000 lines 60, 74, 110, 124, 160, 174).  A message is nil or a      *)
(* record of its fields; unencodable marks content that proto.Marshal      *)
(* rejects.  The wire format is tag, length, payload per non-empty field.  *)

\* a length-delimited field: omitted when empty
LenField(num, bytes) ==
    IF bytes = <<>> THEN <<>> ELSE <<num * 8 + 2, Len(bytes)>> \o bytes

\* base-128 varint of a non-negative value
RECURSIVE Varint(_)
Varint(n) ==
    IF n < 128 THEN <<n>> ELSE <<(n % 128) + 128>> \o Varint(n \div 128)

\* varint of an int32: a negative value is sign-extended to 64 bits (10 bytes)
Int32Varint(v) ==
    IF v >= 0 THEN Varint(v)
    ELSE [k \in 1..10 |->
            IF k <= 4 THEN ((v \div (128 ^ (k - 1))) % 128) + 128
            ELSE IF k = 5 THEN ((v \div (128 ^ 4)) % 128) + 128
            ELSE IF k < 10 THEN 255
            ELSE 1]

RECURSIVE PackedInt32(_)
PackedInt32(ids) ==
    IF ids = <<>> THEN <<>> ELSE Int32Varint(Head(ids)) \o PackedInt32(Tail(ids))

MarshalOK(raw) == [err |-> NoErr, raw |-> raw]

MarshalFail(msg) == [err |-> Err(msg), raw |-> <<>>]

\* proto.Marshal(*cpabe.Params)
MarshalParams(m) ==
    IF m = Nil THEN MarshalFail("proto: Marshal called with nil")
    ELSE IF m.unencodable THEN MarshalFail("proto: cannot encode")
    ELSE MarshalOK(LenField(1, m.g) \o LenField(2, m.h))

\* an embedded message field: omitted when the pointer is nil
ParamField(num, param) ==
    IF param = Nil THEN <<>>
    ELSE LET raw == MarshalParams(param).raw
         IN  <<num * 8 + 2, Len(raw)>> \o raw

\* proto.Marshal(*cpabe.MasterKey)
MarshalMasterKey(m) ==
    IF m = Nil THEN MarshalFail("proto: Marshal called with nil")
    ELSE IF m.unencodable \/ (m.param # Nil /\ m.param.unencodable)
         THEN MarshalFail("proto: cannot encode")
    ELSE MarshalOK(ParamField(1, m.param) \o LenField(2, m.alpha))

\* proto.Marshal(*cpabe.Key)
MarshalKey(m) ==
    IF m = Nil THEN MarshalFail("proto: Marshal called with nil")
    ELSE IF m.unencodable \/ (m.param # Nil /\ m.param.unencodable)
         THEN MarshalFail("proto: cannot encode")
    ELSE MarshalOK(ParamField(1, m.param)
                   \o LenField(2, PackedInt32(m.attributeId))
                   \o LenField(3, m.d))

----------------------------------------------------------------------------
(* The key variants (part_000 lines 53-199) *)

cpabePrivateKey(key) == [kind |-> "cpabePrivateKey", key |-> key]

cpabeMasterKey(key) == [kind |-> "cpabeMasterKey", key |-> key]

cpabeParams(params) == [kind |-> "cpabeParams", params |-> params]

\* how a call of SKI() ends: it returns a byte slice (Nil or a digest) or panics
Return(ski) == [kind |-> "return", ski |-> ski]

Panic(value) == [kind |-> "panic", value |-> value]

\* Bytes() of the three variants: (raw, err)
BytesResult(m, msg) ==
    IF IsErr(m.err) THEN [raw |-> Nil, err |-> Wrap(msg, m.err)]
    ELSE [raw |-> m.raw, err |-> NoErr]

cpabePrivateKeyBytes(k) ==
    BytesResult(MarshalKey(k.key), "Failed marshalling cpabe key")

cpabeMasterKeyBytes(k) ==
    BytesResult(MarshalMasterKey(k.key), "Failed marshalling cpabe master key")

cpabeParamsBytes(p) ==
    BytesResult(MarshalParams(p.params), "Failed marshalling params")

cpabePrivateKeySKI(k) ==
    IF k.key = Nil THEN Return(Nil)
    ELSE LET m == MarshalKey(k.key)
         IN  IF IsErr(m.err) THEN Panic(m.err) ELSE Return(Sha256(m.raw))

cpabeMasterKeySKI(k) ==
    IF k.key = Nil THEN Return(Nil)
    ELSE LET m == MarshalMasterKey(k.key)
         IN  IF IsErr(m.err) THEN Panic(m.err) ELSE Return(Sha256(m.raw))

\* line 175 panics with err whether or not err is nil; lines 178-180 never run
cpabeParamsSKI(p) ==
    IF p.params = Nil THEN Return(Nil)
    ELSE LET m == MarshalParams(p.params)
         IN  Panic(m.err)

\* Private() of the three variants and of the classical keys of the store
Private(k) ==
    CASE k.kind = "cpabePrivateKey" -> TRUE
      [] k.kind = "cpabeMasterKey" -> TRUE
      [] k.kind = "cpabeParams" -> FALSE
      [] OTHER -> k.private

\* PublicKey() of the master key: the params object around its Param field
cpabeMasterKeyPublicKey(k) == cpabeParams(k.key.param)

cpabePrivateKeyPublicKey(k) == cpabeParams(k.key.param)

----------------------------------------------------------------------------
(* Inputs of the key-variant operations *)

ParamsMsgs ==
    { [kind |-> "Params", g |-> <<7>>, h |-> <<>>, unencodable |-> FALSE],
      [kind |-> "Params", g |-> <<7>>, h |-> <<9>>, unencodable |-> FALSE],
      [kind |-> "Params", g |-> <<7>>, h |-> <<9>>, unencodable |-> TRUE] }

MasterKeyMsgs ==
    { [kind |-> "MasterKey", param |-> p, alpha |-> a, unencodable |-> u] :
        p \in ParamsMsgs \cup {Nil}, a \in {<<5>>}, u \in BOOLEAN }

KeyMsgs ==
    { [kind |-> "Key", param |-> p, attributeId |-> ids, d |-> <<3>>,
       unencodable |-> u] :
        p \in ParamsMsgs \cup {Nil}, ids \in {<<>>, <<0, 2>>, <<-1>>},
        u \in BOOLEAN }

----------------------------------------------------------------------------
(* getBCCSPKeyOpts (csp.go lines 213-249) *)

\* a csr.KeyRequest: Algo() and Size(); a nil request is Nil
KeyRequest(algo, size) == [kind |-> "KeyRequest", A |-> algo, S |-> size]

KeyGenOpts(name, ephemeral) ==
    [kind |-> "KeyGenOpts", name |-> name, Temporary |-> ephemeral]

OptsResult(opts, err) == [opts |-> opts, err |-> err]

\* a slip: size 521 falls through to the default case
getBCCSPKeyOpts_No521Case(kr, ephemeral) ==
    IF kr = Nil THEN OptsResult(KeyGenOpts("ECDSAKeyGenOpts", ephemeral), NoErr)
    ELSE CASE kr.A = "rsa" ->
                CASE kr.S = 2048 ->
                        OptsResult(KeyGenOpts("RSA2048KeyGenOpts", ephemeral), NoErr)
                  [] kr.S = 3072 ->
                        OptsResult(KeyGenOpts("RSA3072KeyGenOpts", ephemeral), NoErr)
                  [] kr.S = 4096 ->
                        OptsResult(KeyGenOpts("RSA4096KeyGenOpts", ephemeral), NoErr)
                  [] OTHER ->
                        OptsResult(Nil, ErrArg("Invalid RSA key size", kr.S))
           [] kr.A = "ecdsa" ->
                CASE kr.S = 256 ->
                        OptsResult(KeyGenOpts("ECDSAP256KeyGenOpts", ephemeral), NoErr)
                  [] kr.S = 384 ->
                        OptsResult(KeyGenOpts("ECDSAP384KeyGenOpts", ephemeral), NoErr)
                  [] OTHER ->
                        OptsResult(Nil, ErrArg("Invalid ECDSA key size", kr.S))
           [] OTHER -> OptsResult(Nil, ErrArg("Invalid algorithm", kr.A))

getBCCSPKeyOpts(kr, ephemeral) ==
    IF kr = Nil THEN OptsResult(KeyGenOpts("ECDSAKeyGenOpts", ephemeral), NoErr)
    ELSE CASE kr.A = "rsa" ->
                CASE kr.S = 2048 ->
                        OptsResult(KeyGenOpts("RSA2048KeyGenOpts", ephemeral), NoErr)
                  [] kr.S = 3072 ->
                        OptsResult(KeyGenOpts("RSA3072KeyGenOpts", ephemeral), NoErr)
                  [] kr.S = 4096 ->
                        OptsResult(KeyGenOpts("RSA4096KeyGenOpts", ephemeral), NoErr)
                  [] OTHER ->
                        OptsResult(Nil, ErrArg("Invalid RSA key size", kr.S))
           [] kr.A = "ecdsa" ->
                CASE kr.S = 256 ->
                        OptsResult(KeyGenOpts("ECDSAP256KeyGenOpts", ephemeral), NoErr)
                  [] kr.S = 384 ->
                        OptsResult(KeyGenOpts("ECDSAP384KeyGenOpts", ephemeral), NoErr)
                  [] kr.S = 521 ->
                        OptsResult(Nil, Err("Unsupported ECDSA key size: 521"))
                  [] OTHER ->
                        OptsResult(Nil, ErrArg("Invalid ECDSA key size", kr.S))
           [] OTHER -> OptsResult(Nil, ErrArg("Invalid algorithm", kr.A))

Algos == {"rsa", "ecdsa", "RSA", "ed25519", ""}

Sizes == {0, 256, 384, 521, 1024, 1234, 2048, 3072, 4096}

KeyRequests == {Nil} \cup {KeyRequest(a, n) : a \in Algos, n \in Sizes}

----------------------------------------------------------------------------
(* The key store (bccsp.BCCSP) as this code sees it *)

KeyIds == {1, 2}

\* the marshalled public point of classical key pair id
PubBytes(id) == <<4, id>>

ecdsaPublicKey(id) ==
    [kind |-> "ecdsaPublicKey", id |-> id, private |-> FALSE,
     ski |-> Sha256(PubBytes(id))]

ecdsaPrivateKey(id) ==
    [kind |-> "ecdsaPrivateKey", id |-> id, private |-> TRUE,
     ski |-> Sha256(PubBytes(id))]

\* keys the store may hold before any call of this code
InitialKeys == {ecdsaPublicKey(1), ecdsaPrivateKey(1)}

\* the identifier under which the store files a key: the key's own SKI()
KeyAlias(k) ==
    IF k.kind = "cpabeMasterKey" THEN cpabeMasterKeySKI(k).ski
    ELSE IF k.kind = "cpabePrivateKey" THEN cpabePrivateKeySKI(k).ski
    ELSE k.ski

\* csp.GetKey(ski).  answer is what the store does for the identifier: "none"
\* (an error), or it returns the "private" or the "public" key filed under it,
\* which it can only do when it holds such a key
GetKey(store, ski, answer) ==
    LET found == {k \in store : KeyAlias(k) = ski
                                /\ Private(k) = (answer = "private")}
    IN  IF answer # "none" /\ found # {}
        THEN [key |-> CHOOSE k \in found : TRUE, err |-> NoErr]
        ELSE [key |-> Nil, err |-> Err("Key with SKI not found")]

GetKeyAnswers == {"none", "private", "public"}

\* one entry of call.trace: a call made to a collaborator and whether it succeeded
Ev(fn, arg, ok) == [fn |-> fn, arg |-> arg, ok |-> ok, res |-> Nil]

\* the same for a call whose returned object matters later
EvRes(fn, arg, ok, res) == [fn |-> fn, arg |-> arg, ok |-> ok, res |-> res]

----------------------------------------------------------------------------
(* Files and certificates *)

Unreadable == [kind |-> "unreadable"]

Garbage == [kind |-> "garbage"]

\* a parsed X.509 certificate: its public key and its extension list
Certificate(pub, exts) == [kind |-> "cert", pub |-> pub, exts |-> exts]

PubKeyInfo(alg, id) == [alg |-> alg, id |-> id]

\* what a key file decodes to (utils.PEMtoPrivateKey)
KeyFiles ==
    {Unreadable, Garbage}
    \cup {[kind |-> "ecdsa", id |-> id, curveOK |-> TRUE] : id \in KeyIds}
    \cup {[kind |-> "ecdsa", id |-> 1, curveOK |-> FALSE],
          [kind |-> "rsa", id |-> 1],
          [kind |-> "other", id |-> 1]}

\* certificate files of the signer operations
SignerCertFiles ==
    {Unreadable, Garbage}
    \cup {Certificate(PubKeyInfo("ecdsa", id), <<>>) : id \in KeyIds}
    \cup {Certificate(PubKeyInfo("dsa", 1), <<>>)}

\* the key-store handle passed by the caller: a provider or a nil interface
TheCSP == [kind |-> "csp"]

CSPs == {TheCSP, Nil}

Policies == {"nil", "valid", "invalid"}

\* answers of the collaborators during one call: what GetKey does, and whether
\* cspsigner.New on the stored key, KeyImport of the key file and cspsigner.New
\* on the imported key succeed
Env(getKey, signerOK, importOK, fbSignerOK) ==
    [getKey |-> getKey, signerOK |-> signerOK, importOK |-> importOK,
     fbSignerOK |-> fbSignerOK]

Envs ==
    {Env(k, a, b, c) : k \in GetKeyAnswers, a \in BOOLEAN, b \in BOOLEAN,
                       c \in BOOLEAN}

\* the answers a lookup alone can get
LookupEnvs == {Env(k, TRUE, TRUE, TRUE) : k \in GetKeyAnswers}

\* the answers a lookup followed by signer construction can get
SignerEnvs == {Env(k, a, TRUE, TRUE) : k \in GetKeyAnswers, a \in BOOLEAN}

\* the answers an import alone can get
ImportEnvs == {Env("none", TRUE, b, TRUE) : b \in BOOLEAN}

----------------------------------------------------------------------------
(* ImportBCCSPKeyFromPEM (csp.go lines 336-362) *)

\* how a call ends: res holds the returned values, store the key store afterwards
Returned(res, trace, store) ==
    [kind |-> "return", res |-> res, trace |-> trace, store |-> store]

Panicked(value, trace, store) ==
    [kind |-> "panic", res |-> Nil, value |-> value, trace |-> trace,
     store |-> store]

KeyErr(key, err) == [key |-> key, err |-> err]

\* a slip: an RSA key is handed to the store like an ECDSA key
ImportDecodedKey_RSAImported(keyFile, csp, temporary, store, env, trace) ==
    IF csp = Nil THEN Panicked("nil pointer dereference", trace, store)
    ELSE IF keyFile.kind \in {"ecdsa", "rsa"}
    THEN Returned(KeyErr(ecdsaPrivateKey(keyFile.id), NoErr),
                  trace \o <<Ev("KeyImport(ECDSAPrivateKey)", keyFile.id, TRUE)>>,
                  IF temporary THEN store
                  ELSE store \cup {ecdsaPrivateKey(keyFile.id)})
    ELSE Returned(KeyErr(Nil, Err("invalid secret key type")), trace, store)

\* the switch on the decoded key's type, lines 346-361
ImportDecodedKey(keyFile, csp, temporary, store, env, trace) ==
    CASE keyFile.kind = "ecdsa" ->
            IF ~keyFile.curveOK
            THEN Returned(KeyErr(Nil, Wrap("Failed to convert ECDSA private key",
                                           Err("unknown elliptic curve"))),
                          trace \o <<Ev("PrivateKeyToDER", keyFile.id, FALSE)>>,
                          store)
            ELSE LET t1 == trace \o <<Ev("PrivateKeyToDER", keyFile.id, TRUE)>>
                 IN  IF csp = Nil
                     THEN Panicked("nil pointer dereference", t1, store)
                     ELSE IF ~env.importOK
                     THEN Returned(KeyErr(Nil, Wrap("Failed to import ECDSA private key",
                                                    Err("KeyImport failed"))),
                                   t1 \o <<Ev("KeyImport(ECDSAPrivateKey)", keyFile.id, FALSE)>>,
                                   store)
                     ELSE Returned(KeyErr(ecdsaPrivateKey(keyFile.id), NoErr),
                                   t1 \o <<Ev("KeyImport(ECDSAPrivateKey)", keyFile.id, TRUE)>>,
                                   IF temporary THEN store
                                   ELSE store \cup {ecdsaPrivateKey(keyFile.id)})
      [] keyFile.kind = "rsa" ->
            Returned(KeyErr(Nil, Err("RSA private key import is not supported")),
                     trace, store)
      [] OTHER ->
            Returned(KeyErr(Nil, Err("invalid secret key type")), trace, store)

ImportBCCSPKeyFromPEM(keyFile, csp, temporary, store, env) ==
    IF keyFile = Unreadable
    THEN Returned(KeyErr(Nil, Err("read keyFile")),
                  <<Ev("ReadFile", "keyFile", FALSE)>>, store)
    ELSE IF keyFile = Garbage
    THEN Returned(KeyErr(Nil, Wrap("Failed parsing private key",
                                   Err("PEMtoPrivateKey"))),
                  <<Ev("ReadFile", "keyFile", TRUE),
                    Ev("PEMtoPrivateKey", "keyFile", FALSE)>>, store)
    ELSE ImportDecodedKey(keyFile, csp, temporary, store, env,
                          <<Ev("ReadFile", "keyFile", TRUE),
                            Ev("PEMtoPrivateKey", "keyFile", TRUE)>>)

----------------------------------------------------------------------------
(* GetSignerFromCert, GetSignerFromCertFile (csp.go lines 251-295) *)

\* cspsigner.New(csp, key): a crypto.Signer bound to key
CryptoSigner(key) == [kind |-> "cryptoSigner", key |-> key]

SignerRes(key, signer, cert, err) ==
    [key |-> key, signer |-> signer, cert |-> cert, err |-> err]

\* a slip: the key GetKey returned is used without asking whether it is private
SignerFromStoredKey_NoPrivateCheck(cert, ski, store, env, trace) ==
    LET got == GetKey(store, ski, env.getKey)
        t2 == trace \o <<EvRes("GetKey", ski, ~IsErr(got.err), got.key)>>
    IN  IF IsErr(got.err)
        THEN Returned(SignerRes(Nil, Nil, cert,
                     Wrap("Could not find matching private key for SKI", got.err)),
                      t2, store)
        ELSE IF ~env.signerOK
        THEN Returned(SignerRes(Nil, Nil, cert,
                     Wrap("Failed to load ski from bccsp", Err("cspsigner.New"))),
                      t2 \o <<Ev("cspsigner.New", got.key, FALSE)>>, store)
        ELSE Returned(SignerRes(got.key, CryptoSigner(got.key), cert, NoErr),
                      t2 \o <<Ev("cspsigner.New", got.key, TRUE)>>, store)

\* lines 261-277: the lookup by identifier and what follows it
SignerFromStoredKey(cert, ski, store, env, trace) ==
    LET got == GetKey(store, ski, env.getKey)
        t2 == trace \o <<EvRes("GetKey", ski, ~IsErr(got.err), got.key)>>
    IN  IF IsErr(got.err)
        THEN Returned(SignerRes(Nil, Nil, cert,
                     Wrap("Could not find matching private key for SKI", got.err)),
                      t2, store)
        ELSE IF ~Private(got.key)
        THEN Returned(SignerRes(Nil, Nil, cert,
                     ErrArg("The private key associated with the certificate was not found",
                            ski)),
                      t2, store)
        ELSE IF ~env.signerOK
        THEN Returned(SignerRes(Nil, Nil, cert,
                     Wrap("Failed to load ski from bccsp", Err("cspsigner.New"))),
                      t2 \o <<Ev("cspsigner.New", got.key, FALSE)>>, store)
        ELSE Returned(SignerRes(got.key, CryptoSigner(got.key), cert, NoErr),
                      t2 \o <<Ev("cspsigner.New", got.key, TRUE)>>, store)

GetSignerFromCert(cert, csp, store, env) ==
    IF csp = Nil
    THEN Returned(SignerRes(Nil, Nil, cert, Err("CSP was not initialized")),
                  <<>>, store)
    ELSE IF cert.pub.alg # "ecdsa"
    THEN Returned(SignerRes(Nil, Nil, cert,
                 Wrap("Failed to import certificate's public key",
                      Err("public key type not recognized"))),
                  <<Ev("KeyImport(X509PublicKey)", cert.pub, FALSE)>>, store)
    ELSE SignerFromStoredKey(cert, ecdsaPublicKey(cert.pub.id).ski, store, env,
                             <<Ev("KeyImport(X509PublicKey)", cert.pub, TRUE)>>)

\* lines 292-294: GetSignerFromCertFile returns what GetSignerFromCert returned;
\* r is that result, prefix the calls made before it
AfterParse(prefix, r) == Returned(r.res, prefix \o r.trace, r.store)

GetSignerFromCertFile(certFile, csp, store, env) ==
    IF certFile = Unreadable
    THEN Returned(SignerRes(Nil, Nil, Nil, Wrap("Could not read certFile",
                                                 Err("read certFile"))),
                  <<Ev("ReadFile", "certFile", FALSE)>>, store)
    ELSE IF certFile = Garbage
    THEN Returned(SignerRes(Nil, Nil, Nil, Err("failed to parse certificate")),
                  <<Ev("ReadFile", "certFile", TRUE),
                    Ev("ParseCertificatePEM", "certFile", FALSE)>>, store)
    ELSE AfterParse(<<Ev("ReadFile", "certFile", TRUE),
                      Ev("ParseCertificatePEM", "certFile", TRUE)>>,
                    GetSignerFromCert(certFile, csp, store, env))

----------------------------------------------------------------------------
(* BccspBackedSigner (csp.go lines 84-111) *)

\* local.NewSigner(priv, cert, sigAlgo, policy): the signer holds what it is given
LocalSigner(priv, ca) == [kind |-> "localSigner", priv |-> priv, ca |-> ca]

SignerErr(signer, err) == [signer |-> signer, err |-> err]

\* lines 106-110
NewLocalSigner(cspSigner, parsedCa, policy, trace, store) ==
    IF policy = "invalid"
    THEN Returned(SignerErr(Nil, Wrap("Failed to create new signer",
                                      Err("invalid policy"))),
                  trace \o <<Ev("local.NewSigner", parsedCa, FALSE)>>, store)
    ELSE Returned(SignerErr(LocalSigner(cspSigner, parsedCa), NoErr),
                  trace \o <<Ev("local.NewSigner", parsedCa, TRUE)>>, store)

\* lines 93-104: what follows ImportBCCSPKeyFromPEM in the fallback; imp is its
\* result, trace the calls made before it
AfterImport(imp, policy, parsedCa, env, trace) ==
    IF imp.kind = "panic" THEN Panicked(imp.value, trace \o imp.trace, imp.store)
    ELSE IF IsErr(imp.res.err)
    THEN Returned(SignerErr(Nil,
             Wrap("Could not find the private key in BCCSP keystore nor in keyfile",
                  imp.res.err)), trace \o imp.trace, imp.store)
    ELSE IF ~env.fbSignerOK
    THEN Returned(SignerErr(Nil, Wrap("Failed initializing CryptoSigner",
                                      Err("cspsigner.New"))),
                  trace \o imp.trace \o <<Ev("cspsigner.New", imp.res.key, FALSE)>>,
                  imp.store)
    ELSE NewLocalSigner(CryptoSigner(imp.res.key), parsedCa, policy,
                        trace \o imp.trace \o <<Ev("cspsigner.New", imp.res.key, TRUE)>>,
                        imp.store)

\* lines 89-104: the fallback, entered when GetSignerFromCertFile returned an error
SignerFallback(keyFile, policy, csp, parsedCa, env, trace, store) ==
    AfterImport(ImportBCCSPKeyFromPEM(keyFile, csp, FALSE, store, env),
                policy, parsedCa, env, trace)

\* lines 88-110: r is what GetSignerFromCertFile returned
AfterLookup(r, keyFile, policy, csp, env) ==
    IF IsErr(r.res.err)
    THEN SignerFallback(keyFile, policy, csp, r.res.cert, env, r.trace, r.store)
    ELSE NewLocalSigner(r.res.signer, r.res.cert, policy, r.trace, r.store)

BccspBackedSigner(caFile, keyFile, policy, csp, store, env) ==
    AfterLookup(GetSignerFromCertFile(caFile, csp, store, env),
                keyFile, policy, csp, env)

----------------------------------------------------------------------------
(* Certificate extensions and attributes (csp.go lines 139-161, part_000    *)
(* lines 207-212) *)

ParamsOIDString == "1.2.3.4.5.6.7.8.9"

\* attrmgr.AttrOIDString, the attribute manager's extension
AttrOIDString == "1.2.3.4.5.6.7.8.1"

OtherOIDString == "2.5.29.15"

Extension(id, value) == [id |-> id, value |-> value]

\* attribute names and values, as byte strings
S_dep == <<100, 101, 112>>

S_dept == <<100, 101, 112, 116>>

S_role == <<114, 111, 108, 101>>

S_eng == <<101, 110, 103>>

S_admin == <<97, 100, 109, 105, 110>>

\* the members an attribute object is written from: three names, one of them
\* with two values
AttrPairs ==
    {<<S_dept, S_eng>>, <<S_role, S_admin>>, <<S_dep, S_eng>>, <<S_dept, S_admin>>}

\* An extension value is a record: bytes for a binary payload, and for JSON
\* text whether it parses and the members of its object in the order written
\* (a name may be repeated).  A nil byte slice is Nil.
MalformedJSON ==
    [kind |-> "json", bytes |-> <<>>, wellformed |-> FALSE, pairs |-> <<>>]

JSONObject(pairs) ==
    [kind |-> "json", bytes |-> <<>>, wellformed |-> TRUE, pairs |-> pairs]

\* an extension value that is plain bytes (no JSON text)
RawValue(bytes) ==
    [kind |-> "bytes", bytes |-> bytes, wellformed |-> FALSE, pairs |-> <<>>]

PairSeqs ==
    UNION {[1..n -> AttrPairs] : n \in 0..MaxAttrs}

AttrDocs == {MalformedJSON} \cup {JSONObject(ps) : ps \in PairSeqs}

\* json.Unmarshal into attrmgr.Attributes: the map Attrs; a repeated name keeps
\* its last value
UnmarshalAttrs(pairs) ==
    [n \in {pairs[i][1] : i \in 1..Len(pairs)} |->
        LET last == CHOOSE i \in 1..Len(pairs) :
                        /\ pairs[i][1] = n
                        /\ \A j \in (i + 1)..Len(pairs) : pairs[j][1] # n
        IN  pairs[last][2]]

\* sort.Sort(sort.StringSlice(keys)): insertion into the sorted prefix
RECURSIVE InsertSorted(_, _)
InsertSorted(k, sorted) ==
    IF sorted = <<>> THEN <<k>>
    ELSE IF StrLess(Head(sorted), k)
         THEN <<Head(sorted)>> \o InsertSorted(k, Tail(sorted))
         ELSE <<k>> \o sorted

RECURSIVE SortKeysFrom(_, _)
SortKeysFrom(keys, sorted) ==
    IF keys = <<>> THEN sorted
    ELSE SortKeysFrom(Tail(keys), InsertSorted(Head(keys), sorted))

\* a slip: the keys are used in the order the map yields them
SortKeys_Unsorted(keys) == keys

SortKeys(keys) == SortKeysFrom(keys, <<>>)

\* fmt.Sprintf("%s.%s", key, value)
AttrString(key, value) == key \o <<46>> \o value

\* int32(abeutils.Hash(attrString)): the attribute engine's string hash, here a
\* polynomial hash spread over negative and positive int32 values
RECURSIVE PolyHash(_, _)
PolyHash(str, h) ==
    IF str = <<>> THEN h
    ELSE PolyHash(Tail(str), (h * 31 + Head(str)) % 1048576)

HashInt32(str) == PolyHash(str, 7) * 2047 - 1073741824

\* lines 156-159: one AttributeID per key, in the order of keys
RECURSIVE AttributeIDs(_, _)
AttributeIDs(keys, attrs) ==
    IF keys = <<>> THEN <<>>
    ELSE <<HashInt32(AttrString(Head(keys), attrs[Head(keys)]))>>
         \o AttributeIDs(Tail(keys), attrs)

RECURSIVE HashEvents(_, _)
HashEvents(keys, attrs) ==
    IF keys = <<>> THEN <<>>
    ELSE <<Ev("abeutils.Hash", AttrString(Head(keys), attrs[Head(keys)]), TRUE)>>
         \o HashEvents(Tail(keys), attrs)

\* binary.BigEndian.PutUint32(b, uint32(attr)): the two's complement bytes
BigEndian4(v) ==
    <<(v \div 16777216) % 256, (v \div 65536) % 256, (v \div 256) % 256, v % 256>>

\* lines 168-172
RECURSIVE AttrBytes(_)
AttrBytes(ids) ==
    IF ids = <<>> THEN <<>> ELSE BigEndian4(Head(ids)) \o AttrBytes(Tail(ids))

\* the state of the extension loop of lines 140-161
ScanState(paramsBytes, attributeID, err, trace) ==
    [paramsBytes |-> paramsBytes, attributeID |-> attributeID, err |-> err,
     trace |-> trace]

\* lines 146-160 for one attribute extension; iter is the order in which the
\* range over the map attrs.Attrs yields its keys
ScanAttrExtension(ext, st, iter) ==
    IF ~ext.value.wellformed
    THEN ScanState(st.paramsBytes, st.attributeID,
                   Wrap("unmarshal Attributes error", Err("invalid JSON")),
                   st.trace \o <<Ev("json.Unmarshal", ext.id, FALSE)>>)
    ELSE LET attrs == UnmarshalAttrs(ext.value.pairs)
             keys  == SortKeys(iter)
         IN  ScanState(st.paramsBytes,
                       st.attributeID \o AttributeIDs(keys, attrs),
                       NoErr,
                       st.trace \o <<Ev("json.Unmarshal", ext.id, TRUE)>>
                                \o HashEvents(keys, attrs))

\* the loop of lines 142-161; it ends early when the JSON does not parse
RECURSIVE ScanExtensions(_, _, _)
ScanExtensions(exts, st, iter) ==
    IF exts = <<>> THEN st
    ELSE LET ext == Head(exts)
             s1  == IF ext.id = ParamsOIDString
                    THEN ScanState(ext.value, st.attributeID, st.err, st.trace)
                    ELSE st
             s2  == IF ext.id = AttrOIDString
                    THEN ScanAttrExtension(ext, s1, iter)
                    ELSE s1
         IN  IF IsErr(s2.err) THEN s2 ELSE ScanExtensions(Tail(exts), s2, iter)

----------------------------------------------------------------------------
(* BccspBackedCPABEPrivateKey (csp.go lines 127-180) *)

\* lines 162-179: after the loop
PrivateKeyLookup(st, csp, store, env, trace) ==
    IF st.paramsBytes = Nil
    THEN Returned(KeyErr(Nil, NoErr), trace, store)
    ELSE LET ski == Sha256(st.paramsBytes.bytes \o AttrBytes(st.attributeID))
         IN  IF csp = Nil
             THEN Panicked("nil pointer dereference", trace, store)
             ELSE LET got == GetKey(store, ski, env.getKey)
                  IN  Returned(KeyErr(got.key, got.err),
                               trace \o <<EvRes("GetKey", ski, ~IsErr(got.err), got.key)>>,
                               store)

BccspBackedCPABEPrivateKey(certFile, csp, store, env, iter) ==
    IF certFile = Unreadable
    THEN Returned(KeyErr(Nil, Wrap("read file error", Err("read certFile"))),
                  <<Ev("ReadFile", "certFile", FALSE)>>, store)
    ELSE IF certFile = Garbage
    THEN Returned(KeyErr(Nil, Wrap("parse certificate error",
                                   Err("failed to parse certificate"))),
                  <<Ev("ReadFile", "certFile", TRUE),
                    Ev("ParseCertificatePEM", "certFile", FALSE)>>, store)
    ELSE LET st == ScanExtensions(certFile.exts,
                       ScanState(Nil, <<>>, NoErr,
                                 <<Ev("ReadFile", "certFile", TRUE),
                                   Ev("ParseCertificatePEM", "certFile", TRUE)>>),
                       iter)
         IN  IF IsErr(st.err)
             THEN Returned(KeyErr(Nil, st.err), st.trace, store)
             ELSE PrivateKeyLookup(st, csp, store, env, st.trace)

\* payloads of the Params extension: marshalled Params
ParamsPayloads ==
    {MarshalParams(m).raw : m \in {x \in ParamsMsgs : ~x.unencodable}}

ParamsExts == {Extension(ParamsOIDString, RawValue(b)) : b \in ParamsPayloads}

AttrExts == {Extension(AttrOIDString, d) : d \in AttrDocs}

OtherExt == Extension(OtherOIDString, RawValue(<<1>>))

\* extension lists: the Params and the attribute extension, each present or not,
\* in either order, or one of them behind an unrelated extension
ExtLists ==
    {<<>>, <<OtherExt>>}
    \cup {<<p>> : p \in ParamsExts}
    \cup {<<a>> : a \in AttrExts}
    \cup {<<p, a>> : p \in ParamsExts, a \in AttrExts}
    \cup {<<a, p>> : p \in ParamsExts, a \in AttrExts}
    \cup {<<OtherExt, p>> : p \in ParamsExts}
    \cup {<<OtherExt, a>> : a \in AttrExts}

\* certificate files of the attribute-key lookup
CPABECertFiles ==
    {Unreadable, Garbage}
    \cup {Certificate(PubKeyInfo("ecdsa", 1), l) : l \in ExtLists}

\* certificate files of the params lookup: the Params extension absent, holding
\* marshalled Params or holding other bytes, alone or beside other extensions
ParamsCertFiles ==
    {Unreadable, Garbage}
    \cup {Certificate(PubKeyInfo("ecdsa", 1), l) :
            l \in {<<>>, <<OtherExt>>, <<Extension(AttrOIDString, MalformedJSON)>>}}
    \cup {Certificate(PubKeyInfo("ecdsa", 1), pre \o <<Extension(ParamsOIDString, RawValue(b))>>) :
            pre \in {<<>>, <<OtherExt>>,
                     <<Extension(AttrOIDString, JSONObject(<<<<S_role, S_admin>>>>))>>},
            b \in ParamsPayloads \cup {<<255>>}}

\* the attribute map of a certificate's attribute extension (empty without one)
AttrsOfCert(certFile) ==
    IF certFile.kind # "cert" THEN <<>>
    ELSE LET idx == {i \in 1..Len(certFile.exts) :
                        certFile.exts[i].id = AttrOIDString}
         IN  IF idx = {} THEN <<>>
             ELSE UnmarshalAttrs(certFile.exts[CHOOSE i \in idx : TRUE].value.pairs)

\* the orders in which ranging over that map can yield its keys
IterOrders(certFile) == Perms(DOMAIN AttrsOfCert(certFile))

----------------------------------------------------------------------------
(* BccspBackedCPABEParams (csp.go lines 182-211) *)

ParseResult(ok, msg) == [ok |-> ok, msg |-> msg]

\* proto.Unmarshal into cpabe.Params: the inverse of the wire format above
RECURSIVE ParseParams(_, _)
ParseParams(bytes, msg) ==
    IF bytes = <<>> THEN ParseResult(TRUE, msg)
    ELSE IF Len(bytes) < 2 THEN ParseResult(FALSE, Nil)
    ELSE LET tag == bytes[1]
             n   == bytes[2]
         IN  IF tag \notin {10, 18} \/ Len(bytes) < 2 + n
             THEN ParseResult(FALSE, Nil)
             ELSE LET payload == SubSeq(bytes, 3, 2 + n)
                      rest    == SubSeq(bytes, 3 + n, Len(bytes))
                  IN  ParseParams(rest,
                                  IF tag = 10 THEN [msg EXCEPT !.g = payload]
                                  ELSE [msg EXCEPT !.h = payload])

\* csp.KeyImport(paramsBytes, CPABEParamsImportOpts{Temporary: true}): the
\* params key decoded from the bytes; nothing is stored
KeyImportParams(bytes) ==
    LET parsed == ParseParams(bytes, [kind |-> "Params", g |-> <<>>, h |-> <<>>,
                                      unencodable |-> FALSE])
    IN  IF parsed.ok THEN KeyErr(cpabeParams(parsed.msg), NoErr)
        ELSE KeyErr(Nil, Err("Failed unmarshalling params"))

\* the loop of lines 196-200: the value of the last Params extension, or Nil
RECURSIVE FindParams(_, _)
FindParams(exts, paramsBytes) ==
    IF exts = <<>> THEN paramsBytes
    ELSE FindParams(Tail(exts),
                    IF Head(exts).id = ParamsOIDString THEN Head(exts).value
                    ELSE paramsBytes)

\* lines 201-210: after the loop
ParamsImport(paramsBytes, csp, store, trace) ==
    IF paramsBytes = Nil
    THEN Returned(KeyErr(Nil, NoErr), trace, store)
    ELSE IF csp = Nil
    THEN Panicked("nil pointer dereference", trace, store)
    ELSE LET imp == KeyImportParams(paramsBytes.bytes)
         IN  IF IsErr(imp.err)
             THEN Returned(KeyErr(Nil, Wrap("import params error", imp.err)),
                           trace \o <<Ev("KeyImport(CPABEParams)", paramsBytes.bytes, FALSE)>>,
                           store)
             ELSE Returned(KeyErr(imp.key, NoErr),
                           trace \o <<Ev("KeyImport(CPABEParams)", paramsBytes.bytes, TRUE)>>,
                           store)

BccspBackedCPABEParams(certFile, csp, store) ==
    IF certFile = Unreadable
    THEN Returned(KeyErr(Nil, Wrap("read file error", Err("read certFile"))),
                  <<Ev("ReadFile", "certFile", FALSE)>>, store)
    ELSE IF certFile = Garbage
    THEN Returned(KeyErr(Nil, Wrap("parse certificate error",
                                   Err("failed to parse certificate"))),
                  <<Ev("ReadFile", "certFile", TRUE),
                    Ev("ParseCertificatePEM", "certFile", FALSE)>>, store)
    ELSE ParamsImport(FindParams(certFile.exts, Nil), csp, store,
                      <<Ev("ReadFile", "certFile", TRUE),
                        Ev("ParseCertificatePEM", "certFile", TRUE)>>)

----------------------------------------------------------------------------
(* BccspBackedCPABEMasterKey (csp.go lines 113-125) *)

\* line 124: csp.GetKey(params.SKI()); ski is what params.SKI() did
MasterKeyLookup(ski, store, env, trace) ==
    IF ski.kind = "panic" THEN Panicked(ski.value, trace, store)
    ELSE Returned(KeyErr(GetKey(store, ski.ski, env.getKey).key,
                         GetKey(store, ski.ski, env.getKey).err),
                  trace \o <<EvRes("GetKey", ski.ski,
                                   ~IsErr(GetKey(store, ski.ski, env.getKey).err),
                                   GetKey(store, ski.ski, env.getKey).key)>>,
                  store)

\* lines 117-124: r is what BccspBackedCPABEParams did
AfterParams(r, store, env) ==
    IF r.kind = "panic" THEN r
    ELSE IF IsErr(r.res.err)
    THEN Returned(KeyErr(Nil, Wrap("backed cpabe params error", r.res.err)),
                  r.trace, r.store)
    ELSE IF r.res.key = Nil
    THEN Returned(KeyErr(Nil, NoErr), r.trace, r.store)
    ELSE MasterKeyLookup(cpabeParamsSKI(r.res.key), r.store, env, r.trace)

BccspBackedCPABEMasterKey(certFile, csp, store, env) ==
    AfterParams(BccspBackedCPABEParams(certFile, csp, store), store, env)

----------------------------------------------------------------------------
(* CPABEMasterKeyGenerate (csp.go lines 316-334) *)

\* one hexadecimal digit, as its character
HexDigit(n) == IF n < 10 THEN 48 + n ELSE 87 + n

\* hex.EncodeToString
RECURSIVE HexEncode(_)
HexEncode(bytes) ==
    IF bytes = <<>> THEN <<>>
    ELSE <<HexDigit(Head(bytes) \div 16), HexDigit(Head(bytes) % 16)>>
         \o HexEncode(Tail(bytes))

\* master keys the engine can generate: complete and encodable
GeneratedMasterKeys ==
    {cpabeMasterKey(m) : m \in {x \in MasterKeyMsgs :
        /\ ~x.unencodable
        /\ x.param # Nil
        /\ ~x.param.unencodable}}

GenRes(key, params, err) == [key |-> key, params |-> params, err |-> err]

\* keygen is the answer of myCSP.KeyGen(CPABEKeyGenOpts{Temporary: false}): Nil
\* for an error, else the generated key, which the store keeps
CPABEMasterKeyGenerate(csp, store, keygen) ==
    IF csp = Nil THEN Panicked("nil pointer dereference", <<>>, store)
    ELSE IF keygen = Nil
    THEN Returned(GenRes(Nil, <<>>, Wrap("bccsp generate cpabe master key error",
                                         Err("KeyGen"))),
                  <<Ev("KeyGen", "CPABEKeyGenOpts", FALSE)>>, store)
    ELSE LET params == cpabeMasterKeyPublicKey(keygen)
             bytes  == cpabeParamsBytes(params)
             t1     == <<Ev("KeyGen", "CPABEKeyGenOpts", TRUE)>>
             store1 == store \cup {keygen}
         IN  IF IsErr(bytes.err)
             THEN Returned(GenRes(Nil, <<>>, Wrap("marshal cpabe params error",
                                                  bytes.err)), t1, store1)
             ELSE Returned(GenRes(keygen, HexEncode(bytes.raw), NoErr), t1, store1)

----------------------------------------------------------------------------
(* LoadX509KeyPair (csp.go lines 364-426) *)

\* largest number of PEM blocks in a certificate file
MaxBlocks == 2

\* PEM block types, as ASCII strings
T_PRIVATE_KEY == <<80, 82, 73, 86, 65, 84, 69, 32, 75, 69, 89>>

T_EC_PRIVATE_KEY == <<69, 67, 32>> \o T_PRIVATE_KEY

\* "PRIVATE KEYS": holds the words PRIVATE KEY but does not end in them
T_PRIVATE_KEYS == T_PRIVATE_KEY \o <<83>>

T_PUBLIC_KEY == <<80, 85, 66, 76, 73, 67, 32, 75, 69, 89>>

T_CERTIFICATE == <<67, 69, 82, 84, 73, 70, 73, 67, 65, 84, 69>>

\* strings.HasSuffix
HasSuffix(s, suffix) ==
    /\ Len(s) >= Len(suffix)
    /\ SubSeq(s, Len(s) - Len(suffix) + 1, Len(s)) = suffix

\* one PEM block: its type and what its bytes hold
PEMBlock(type, body) == [type |-> type, body |-> body]

PEMBlocks ==
    {PEMBlock(t, Garbage) :
        t \in {T_PRIVATE_KEY, T_EC_PRIVATE_KEY, T_PRIVATE_KEYS, T_PUBLIC_KEY}}
    \cup {PEMBlock(T_CERTIFICATE, b) :
            b \in {Certificate(PubKeyInfo("ecdsa", 1), <<>>), Garbage}}

\* a readable file: the PEM blocks pem.Decode finds in it, in order
PEMFile(blocks) == [kind |-> "pem", blocks |-> blocks]

PEMCertFiles ==
    {Unreadable}
    \cup {PEMFile(bs) : bs \in UNION {[1..n -> PEMBlocks] : n \in 0..MaxBlocks}}

\* how the key-file fallback can end: no key file named (keyFile = ""), or
\* tls.LoadX509KeyPair succeeds or fails
TLSFallbacks == {"nokeyfile", "ok", "error"}

TLSCertificate(chain, privateKey) ==
    [kind |-> "tlsCertificate", chain |-> chain, privateKey |-> privateKey]

\* the private key tls.LoadX509KeyPair parses from the key file
FileKey == [kind |-> "fileKey"]

TLSRes(cert, err) == [cert |-> cert, err |-> err]

\* lines 381-392: the loop over the blocks; st holds cert.Certificate and
\* skippedBlockTypes
RECURSIVE DecodeBlocks(_, _)
DecodeBlocks(blocks, st) ==
    IF blocks = <<>> THEN st
    ELSE DecodeBlocks(Tail(blocks),
            IF Head(blocks).type = T_CERTIFICATE
            THEN [st EXCEPT !.chain = Append(@, Head(blocks).body)]
            ELSE [st EXCEPT !.skipped = Append(@, Head(blocks).type)])

\* a slip: the one-block test is left out and the first skipped type decides
NoCertificateError_AnyCount(skippedBlockTypes) ==
    IF Len(skippedBlockTypes) = 0
    THEN Err("Failed to find PEM block in file")
    ELSE IF HasSuffix(skippedBlockTypes[1], T_PRIVATE_KEY)
    THEN Err("Failed to find certificate PEM data in file, but did find a private key; PEM inputs may have been switched")
    ELSE ErrArg("Failed to find CERTIFICATE PEM block in file after skipping PEM blocks of the following types",
                skippedBlockTypes)

\* lines 395-401: the error when no CERTIFICATE block was found
NoCertificateError(skippedBlockTypes) ==
    IF Len(skippedBlockTypes) = 0
    THEN Err("Failed to find PEM block in file")
    ELSE IF Len(skippedBlockTypes) = 1
            /\ HasSuffix(skippedBlockTypes[1], T_PRIVATE_KEY)
    THEN Err("Failed to find certificate PEM data in file, but did find a private key; PEM inputs may have been switched")
    ELSE ErrArg("Failed to find CERTIFICATE PEM block in file after skipping PEM blocks of the following types",
                skippedBlockTypes)

\* lines 410-425: r is what GetSignerFromCert returned, trace the calls before it
AfterSignerFromCert(r, chain, fallback, trace) ==
    IF ~IsErr(r.res.err)
    THEN Returned(TLSRes(TLSCertificate(chain, r.res.signer), NoErr),
                  trace \o r.trace, r.store)
    ELSE IF fallback = "nokeyfile"
    THEN Returned(TLSRes(Nil, Wrap("Could not load TLS certificate with BCCSP",
                                   r.res.err)),
                  trace \o r.trace, r.store)
    ELSE IF fallback = "error"
    THEN Returned(TLSRes(Nil, Wrap("Could not get the private key that matches",
                                   Err("tls.LoadX509KeyPair"))),
                  trace \o r.trace \o <<Ev("tls.LoadX509KeyPair", "keyFile", FALSE)>>,
                  r.store)
    ELSE Returned(TLSRes(TLSCertificate(chain, FileKey), NoErr),
                  trace \o r.trace \o <<Ev("tls.LoadX509KeyPair", "keyFile", TRUE)>>,
                  r.store)

\* lines 394-425: d is the outcome of the loop
AfterDecode(d, csp, store, env, fallback, trace) ==
    IF Len(d.chain) = 0
    THEN Returned(TLSRes(Nil, NoCertificateError(d.skipped)), trace, store)
    ELSE IF d.chain[1] = Garbage
    THEN Returned(TLSRes(Nil, Err("x509: malformed certificate")),
                  trace \o <<Ev("x509.ParseCertificate", "certFile", FALSE)>>,
                  store)
    ELSE AfterSignerFromCert(GetSignerFromCert(d.chain[1], csp, store, env),
                             d.chain, fallback,
                             trace \o <<Ev("x509.ParseCertificate", "certFile", TRUE)>>)

LoadX509KeyPair(certFile, fallback, csp, store, env) ==
    IF certFile = Unreadable
    THEN Returned(TLSRes(Nil, Err("read certFile")),
                  <<Ev("ReadFile", "certFile", FALSE)>>, store)
    ELSE AfterDecode(DecodeBlocks(certFile.blocks,
                                  [chain |-> <<>>, skipped |-> <<>>]),
                     csp, store, env, fallback,
                     <<Ev("ReadFile", "certFile", TRUE)>>)

----------------------------------------------------------------------------
(* State machine: ks is the key store's content, call the last completed   *)
(* call: the operation, its inputs, how it ended (kind), what it returned  *)
(* (out), the collaborator calls it made (trace) and the store before it.  *)

NoCall ==
    [op |-> "none", in |-> Nil, kind |-> "none", out |-> Nil, trace |-> <<>>,
     before |-> {}]

\* a call of a side-effect-free function
Pure(op, in, kind, out) ==
    [op |-> op, in |-> in, kind |-> kind, out |-> out, trace |-> <<>>,
     before |-> ks]

\* a call that ended as r (Returned or Panicked)
Done(op, in, r) ==
    [op |-> op, in |-> in, kind |-> r.kind, out |-> r.res, trace |-> r.trace,
     before |-> ks]

Init ==
    /\ ks \in SUBSET InitialKeys
    /\ call = NoCall

\* the caller is between two calls
Idle == call.op = "none"

\* the caller takes the returned values; a call that panicked has ended the
\* process, which makes no further call
CallReturns ==
    /\ call.kind = "return"
    /\ call' = NoCall
    /\ UNCHANGED ks

Call_cpabePrivateKeySKI ==
    /\ Idle
    /\ \E m \in KeyMsgs \cup {Nil} :
        LET out == cpabePrivateKeySKI(cpabePrivateKey(m))
        IN  /\ call' = Pure("cpabePrivateKey.SKI", cpabePrivateKey(m), out.kind, out)
            /\ UNCHANGED ks

Call_cpabeMasterKeySKI ==
    /\ Idle
    /\ \E m \in MasterKeyMsgs \cup {Nil} :
        LET out == cpabeMasterKeySKI(cpabeMasterKey(m))
        IN  /\ call' = Pure("cpabeMasterKey.SKI", cpabeMasterKey(m), out.kind, out)
            /\ UNCHANGED ks

Call_cpabeParamsSKI ==
    /\ Idle
    /\ \E m \in ParamsMsgs \cup {Nil} :
        LET out == cpabeParamsSKI(cpabeParams(m))
        IN  /\ call' = Pure("cpabeParams.SKI", cpabeParams(m), out.kind, out)
            /\ UNCHANGED ks

Call_getBCCSPKeyOpts ==
    /\ Idle
    /\ \E kr \in KeyRequests, ephemeral \in BOOLEAN :
        /\ call' = Pure("getBCCSPKeyOpts", [kr |-> kr, ephemeral |-> ephemeral],
                        "return", getBCCSPKeyOpts(kr, ephemeral))
        /\ UNCHANGED ks

Call_ImportBCCSPKeyFromPEM ==
    /\ Idle
    /\ \E keyFile \in KeyFiles, csp \in CSPs, temporary \in BOOLEAN, env \in ImportEnvs :
        LET r == ImportBCCSPKeyFromPEM(keyFile, csp, temporary, ks, env)
        IN  /\ call' = Done("ImportBCCSPKeyFromPEM",
                            [keyFile |-> keyFile, csp |-> csp,
                             temporary |-> temporary], r)
            /\ ks' = r.store

Call_GetSignerFromCert ==
    /\ Idle
    /\ \E cert \in SignerCertFiles \ {Unreadable, Garbage}, csp \in CSPs,
          env \in SignerEnvs :
        LET r == GetSignerFromCert(cert, csp, ks, env)
        IN  /\ call' = Done("GetSignerFromCert", [cert |-> cert, csp |-> csp], r)
            /\ ks' = r.store

Call_GetSignerFromCertFile ==
    /\ Idle
    /\ \E certFile \in SignerCertFiles, csp \in CSPs, env \in SignerEnvs :
        LET r == GetSignerFromCertFile(certFile, csp, ks, env)
        IN  /\ call' = Done("GetSignerFromCertFile",
                            [certFile |-> certFile, csp |-> csp], r)
            /\ ks' = r.store

Call_BccspBackedSigner ==
    /\ Idle
    /\ \E caFile \in SignerCertFiles, keyFile \in KeyFiles, policy \in Policies,
       csp \in CSPs, env \in Envs :
        LET r == BccspBackedSigner(caFile, keyFile, policy, csp, ks, env)
        IN  /\ call' = Done("BccspBackedSigner",
                            [caFile |-> caFile, keyFile |-> keyFile,
                             policy |-> policy, csp |-> csp], r)
            /\ ks' = r.store

Call_BccspBackedCPABEPrivateKey ==
    /\ Idle
    /\ \E certFile \in CPABECertFiles, csp \in CSPs, env \in LookupEnvs :
        \E iter \in IterOrders(certFile) :
            LET r == BccspBackedCPABEPrivateKey(certFile, csp, ks, env, iter)
            IN  /\ call' = Done("BccspBackedCPABEPrivateKey",
                                [certFile |-> certFile, csp |-> csp,
                                 iter |-> iter], r)
                /\ ks' = r.store

Call_BccspBackedCPABEParams ==
    /\ Idle
    /\ \E certFile \in ParamsCertFiles, csp \in CSPs :
        LET r == BccspBackedCPABEParams(certFile, csp, ks)
        IN  /\ call' = Done("BccspBackedCPABEParams",
                            [certFile |-> certFile, csp |-> csp], r)
            /\ ks' = r.store

Call_CPABEMasterKeyGenerate ==
    /\ Idle
    /\ \E csp \in CSPs, keygen \in GeneratedMasterKeys \cup {Nil} :
        LET r == CPABEMasterKeyGenerate(csp, ks, keygen)
        IN  /\ call' = Done("CPABEMasterKeyGenerate", [csp |-> csp], r)
            /\ ks' = r.store

Call_LoadX509KeyPair ==
    /\ Idle
    /\ \E certFile \in PEMCertFiles, fallback \in TLSFallbacks, csp \in CSPs,
          env \in SignerEnvs :
        \E r \in {LoadX509KeyPair(certFile, fallback, csp, ks, env)} :
            /\ call' = Done("LoadX509KeyPair",
                            [certFile |-> certFile, fallback |-> fallback,
                             csp |-> csp], r)
            /\ ks' = r.store

Call_BccspBackedCPABEMasterKey ==
    /\ Idle
    /\ \E certFile \in ParamsCertFiles, csp \in CSPs, env \in LookupEnvs :
        \E r \in {BccspBackedCPABEMasterKey(certFile, csp, ks, env)} :
            /\ call' = Done("BccspBackedCPABEMasterKey",
                            [certFile |-> certFile, csp |-> csp], r)
            /\ ks' = r.store

Next ==
    \/ Call_cpabePrivateKeySKI
    \/ Call_cpabeMasterKeySKI
    \/ Call_cpabeParamsSKI
    \/ Call_getBCCSPKeyOpts
    \/ Call_ImportBCCSPKeyFromPEM
    \/ Call_GetSignerFromCert
    \/ Call_GetSignerFromCertFile
    \/ Call_BccspBackedSigner
    \/ Call_BccspBackedCPABEPrivateKey
    \/ Call_BccspBackedCPABEParams
    \/ Call_CPABEMasterKeyGenerate
    \/ Call_LoadX509KeyPair
    \/ Call_BccspBackedCPABEMasterKey
    \/ CallReturns

Spec == Init /\ [][Next]_vars

----------------------------------------------------------------------------
(* Properties.  They read the last completed call. *)

\* positions of call.trace at which collaborator fn was called
Events(fn) == {i \in 1..Len(call.trace) : call.trace[i].fn = fn}

\* positions at which the named file was read
FileReads(file) ==
    {i \in Events("ReadFile") : call.trace[i].arg = file}

IsSKICall == call.op \in {"cpabePrivateKey.SKI", "cpabeMasterKey.SKI", "cpabeParams.SKI"}

\* the content of the key SKI() was called on, and its serialization
SKIContent == IF call.op = "cpabeParams.SKI" THEN call.in.params ELSE call.in.key

SKISerialization ==
    CASE call.op = "cpabePrivateKey.SKI" -> MarshalKey(call.in.key)
      [] call.op = "cpabeMasterKey.SKI" -> MarshalMasterKey(call.in.key)
      [] call.op = "cpabeParams.SKI" -> MarshalParams(call.in.params)

(* C1: for a Params key whose parameters are set and whose serialization    *)
(* succeeds, SKI() returns the SHA-256 digest (32 bytes) of the             *)
(* serialization, and SKI() takes its failure path only when serialization *)
(* returned an error.                                                       *)
C1_ParamsSKIHashesSerialization ==
    (call.op = "cpabeParams.SKI" /\ call.in.params # Nil) =>
        /\ ~IsErr(SKISerialization.err) =>
              /\ call.kind = "return"
              /\ call.out.ski = Sha256(SKISerialization.raw)
              /\ call.out.ski.size = 32
        /\ call.kind = "panic" => IsErr(SKISerialization.err)

(* C2: for each of the three key variants, a serialization failure during  *)
(* SKI() reaches the caller as an error value: the call does not panic and *)
(* returns no digest.                                                       *)
C2_SerializationFailureIsReturnedAsError ==
    (IsSKICall /\ SKIContent # Nil /\ IsErr(SKISerialization.err)) =>
        /\ call.kind # "panic"
        /\ call.out.kind = "error"

\* the certificate of the call carries (does not carry) a Params extension
HasParamsExt(cert) ==
    \E i \in 1..Len(cert.exts) : cert.exts[i].id = ParamsOIDString

IsCertCall(op) == call.op = op /\ call.in.certFile.kind = "cert"

(* C3: for a readable, parseable certificate without a Params extension,   *)
(* BccspBackedCPABEPrivateKey returns no key and no error, does not query  *)
(* the key store and neither decodes nor hashes attributes, whatever the   *)
(* attribute extension holds.                                               *)
C3_NoParamsMeansNotSupported ==
    (IsCertCall("BccspBackedCPABEPrivateKey") /\ ~HasParamsExt(call.in.certFile)) =>
        /\ call.kind = "return"
        /\ call.out = KeyErr(Nil, NoErr)
        /\ Events("GetKey") = {}
        /\ Events("json.Unmarshal") = {}
        /\ Events("abeutils.Hash") = {}

\* the index of the certificate's attribute extension (0 without one)
AttrExtIndex(cert) ==
    LET idx == {i \in 1..Len(cert.exts) : cert.exts[i].id = AttrOIDString}
    IN  IF idx = {} THEN 0 ELSE CHOOSE i \in idx : TRUE

\* the attribute names of map attrs in lexicographic order
CanonicalNames(attrs) ==
    CHOOSE names \in Perms(DOMAIN attrs) :
        \A i \in 1..Len(names) : \A j \in (i + 1)..Len(names) :
            StrLess(names[i], names[j])

\* the strings "name.value" of attrs in canonical order
CanonicalStrings(attrs) ==
    [i \in 1..Cardinality(DOMAIN attrs) |->
        CanonicalNames(attrs)[i] \o <<46>> \o attrs[CanonicalNames(attrs)[i]]]

\* the identifier derived from Params bytes and the canonical attributes
CanonicalIdentifier(paramsBytes, attrs) ==
    LET strs == CanonicalStrings(attrs)
        ids  == [i \in 1..Len(strs) |-> HashInt32(strs[i])]
        be   == [i \in 1..(4 * Len(ids)) |->
                    BigEndian4(ids[((i - 1) \div 4) + 1])[((i - 1) % 4) + 1]]
    IN  Sha256(paramsBytes \o be)

\* the call looked a key up for a certificate with a Params extension and
\* attributes that decode
IsAttributeLookup ==
    /\ IsCertCall("BccspBackedCPABEPrivateKey")
    /\ HasParamsExt(call.in.certFile)
    /\ Events("json.Unmarshal") # {}
    /\ Events("GetKey") # {}

\* the strings hashed during the call, in the order hashed
HashedStrings ==
    LET first == CHOOSE i \in Events("json.Unmarshal") : TRUE
        n     == Cardinality(Events("abeutils.Hash"))
    IN  [i \in 1..n |-> call.trace[first + i].arg]

(* C4: in BccspBackedCPABEPrivateKey the strings hashed into AttributeIDs   *)
(* and the identifier passed to GetKey depend only on the Params payload    *)
(* and the attribute map, not on the order in which the map's entries are   *)
(* written or iterated: the names are sorted before "name.value" is hashed, *)
(* so {role:admin, dept:eng} always yields dept.eng, role.admin.            *)
C4_CanonicalOrderInvariance ==
    IsAttributeLookup =>
        LET cert  == call.in.certFile
            attrs == UnmarshalAttrs(cert.exts[AttrExtIndex(cert)].value.pairs)
            pb    == FindParams(cert.exts, Nil).bytes
            get   == CHOOSE i \in Events("GetKey") : TRUE
        IN  /\ HashedStrings = CanonicalStrings(attrs)
            /\ call.trace[get].arg = CanonicalIdentifier(pb, attrs)
            /\ (DOMAIN attrs = {S_role, S_dept}
                  /\ attrs[S_role] = S_admin /\ attrs[S_dept] = S_eng)
               => HashedStrings = <<S_dept \o <<46>> \o S_eng,
                                    S_role \o <<46>> \o S_admin>>

\* the map was iterated in an order that is not the sorted one
C4_Witness ==
    /\ IsAttributeLookup
    /\ call.in.iter = <<S_role, S_dept>>
    /\ Len(HashedStrings) = 2

\* the parameters of the generated master key and their re-imported copy
C5_Derived == cpabeMasterKeyPublicKey(call.out.key)

C5_Reimported == KeyImportParams(cpabeParamsBytes(C5_Derived).raw)

(* C5: for a generated master key mk, the identifier of the Params derived  *)
(* from mk equals the identifier of the Params obtained by serializing them *)
(* with Bytes() and importing the bytes again through the key store.        *)
C5_ParamsIdentifierRoundTrip ==
    (call.op = "CPABEMasterKeyGenerate" /\ call.kind = "return"
       /\ ~IsErr(call.out.err)) =>
        /\ ~IsErr(C5_Reimported.err)
        /\ cpabeParamsSKI(C5_Derived).kind = "return"
        /\ cpabeParamsSKI(C5_Reimported.key).kind = "return"
        /\ cpabeParamsSKI(C5_Derived).ski # Nil
        /\ cpabeParamsSKI(C5_Derived).ski = cpabeParamsSKI(C5_Reimported.key).ski

IsSignerFromCertCall == call.op \in {"GetSignerFromCert", "GetSignerFromCertFile"}

(* C6: GetSignerFromCert never returns a signer made from a key whose       *)
(* Private() is false: when GetKey returns a public key the call returns an *)
(* error and neither key nor signer, and a signer is returned only when     *)
(* GetKey succeeded with a private key.                                     *)
C6_NoSignerFromPublicKey ==
    IsSignerFromCertCall =>
        /\ \A i \in Events("GetKey") :
              (call.trace[i].ok /\ ~Private(call.trace[i].res)) =>
                  /\ IsErr(call.out.err)
                  /\ call.out.key = Nil
                  /\ call.out.signer = Nil
                  /\ Events("cspsigner.New") = {}
        /\ call.out.signer # Nil =>
              /\ \E i \in Events("GetKey") :
                    /\ call.trace[i].ok
                    /\ Private(call.trace[i].res)
                    /\ call.out.signer.key = call.trace[i].res
              /\ call.out.key = call.out.signer.key
              /\ ~IsErr(call.out.err)

\* the store answered the lookup with a public key
C6_Witness ==
    /\ call.op = "GetSignerFromCert"
    /\ \E i \in Events("GetKey") :
          call.trace[i].ok /\ ~Private(call.trace[i].res)
    /\ IsErr(call.out.err)

\* the lookup by the certificate's identifier was made and gave a private key
LookupFoundPrivateKey ==
    \E j \in Events("GetKey") : call.trace[j].ok /\ Private(call.trace[j].res)

\* the lookup was made before position i and gave no private key
LookupFailedBefore(i) ==
    \E j \in Events("GetKey") :
        j < i /\ ~(call.trace[j].ok /\ Private(call.trace[j].res))

\* the key file was imported and a signer made from the imported key
FallbackSucceeded ==
    /\ \E i \in Events("KeyImport(ECDSAPrivateKey)") : call.trace[i].ok
    /\ \A i \in Events("cspsigner.New") \cup Events("local.NewSigner") :
          (\E j \in FileReads("keyFile") : j < i) => call.trace[i].ok

CallFailed == call.kind = "panic" \/ IsErr(call.out.err)

C7_AtMostOnce == Cardinality(FileReads("keyFile")) <= 1

C7_OnlyAfterFailedLookup == \A i \in FileReads("keyFile") : LookupFailedBefore(i)

\* a signer was made from the key the lookup found
PrimarySignerBuilt ==
    \E i \in Events("cspsigner.New") :
        call.trace[i].ok /\ ~\E j \in FileReads("keyFile") : j < i

C7_NotAfterSuccess ==
    (LookupFoundPrivateKey /\ PrimarySignerBuilt) =>
        /\ FileReads("keyFile") = {}
        /\ Events("KeyImport(ECDSAPrivateKey)") = {}

C7_FailsOnlyIfFallbackFails ==
    ((\E j \in Events("GetKey") : TRUE) /\ ~LookupFoundPrivateKey /\ CallFailed)
      => ~FallbackSucceeded

(* C7: in BccspBackedSigner, called with a key-store handle, the key-file   *)
(* fallback is attempted at most once per call and only after the store    *)
(* lookup by the certificate's identifier has failed; after a successful   *)
(* lookup the key file is not read; and when no private key is found for   *)
(* the identifier the call fails only if the fallback import or the signer *)
(* construction from it fails.                                              *)
C7_FallbackOnlyAfterFailedLookup ==
    (call.op = "BccspBackedSigner" /\ call.in.csp # Nil) =>
        /\ C7_AtMostOnce
        /\ C7_OnlyAfterFailedLookup
        /\ C7_NotAfterSuccess
        /\ C7_FailsOnlyIfFallbackFails

(* C8: in BccspBackedSigner, called with a key-store handle, an unreadable  *)
(* or unparseable certificate file                                          *)
(* is fatal: the call returns an error and no signer whether or not the key *)
(* file can be imported, so every signer returned is bound to a parsed      *)
(* certificate.                                                             *)
C8_UnusableCertificateIsFatal ==
    (call.op = "BccspBackedSigner" /\ call.in.csp # Nil) =>
        /\ call.in.caFile \in {Unreadable, Garbage} =>
              /\ call.kind = "return"
              /\ IsErr(call.out.err)
              /\ call.out.signer = Nil
        /\ (call.kind = "return" /\ call.out.signer # Nil) =>
              /\ call.in.caFile.kind = "cert"
              /\ call.out.signer.ca = call.in.caFile

\* the call read a key file holding an RSA private key
ReadRSAKeyFile ==
    /\ call.op \in {"ImportBCCSPKeyFromPEM", "BccspBackedSigner"}
    /\ call.in.keyFile.kind = "rsa"
    /\ FileReads("keyFile") # {}

(* C9: ImportBCCSPKeyFromPEM on a key file that decodes to an RSA private   *)
(* key returns the error 'RSA private key import is not supported' and no   *)
(* key, makes no KeyImport call and leaves the store unchanged; only a key  *)
(* file that decodes to an ECDSA private key can give an imported key.      *)
C9_RSAImportRejected ==
    /\ ReadRSAKeyFile =>
          /\ call.kind = "return"
          /\ IsErr(call.out.err)
          /\ Events("KeyImport(ECDSAPrivateKey)") = {}
          /\ ks = call.before
          /\ call.op = "ImportBCCSPKeyFromPEM" =>
                /\ call.out.key = Nil
                /\ call.out.err = Err("RSA private key import is not supported")
    /\ (call.op = "ImportBCCSPKeyFromPEM" /\ call.kind = "return"
          /\ call.out.key # Nil) =>
          /\ call.in.keyFile.kind = "ecdsa"
          /\ ~IsErr(call.out.err)

C9_Witness ==
    /\ ReadRSAKeyFile
    /\ call.op = "ImportBCCSPKeyFromPEM"
    /\ call.in.csp # Nil
    /\ IsErr(call.out.err)

\* the table of supported (algorithm, size) pairs and their options
KeyOptsTable ==
    { <<"rsa", 2048, "RSA2048KeyGenOpts">>, <<"rsa", 3072, "RSA3072KeyGenOpts">>,
      <<"rsa", 4096, "RSA4096KeyGenOpts">>, <<"ecdsa", 256, "ECDSAP256KeyGenOpts">>,
      <<"ecdsa", 384, "ECDSAP384KeyGenOpts">> }

Supported(kr) == \E row \in KeyOptsTable : row[1] = kr.A /\ row[2] = kr.S

(* C10: getBCCSPKeyOpts follows the table: RSA 2048/3072/4096 and ECDSA      *)
(* 256/384 give the matching options with the caller's ephemeral flag;      *)
(* ECDSA 521 fails as unsupported, any other ECDSA size as invalid (another *)
(* error), any other RSA size as invalid, any other algorithm as invalid    *)
(* algorithm; a nil request gives default ECDSA options with the flag.      *)
C10_KeyOptsTable ==
    call.op = "getBCCSPKeyOpts" =>
        LET kr  == call.in.kr
            eph == call.in.ephemeral
            out == call.out
        IN  IF kr = Nil
            THEN out = OptsResult(KeyGenOpts("ECDSAKeyGenOpts", eph), NoErr)
            ELSE /\ \A row \in KeyOptsTable :
                       (row[1] = kr.A /\ row[2] = kr.S) =>
                           out = OptsResult(KeyGenOpts(row[3], eph), NoErr)
                 /\ ~Supported(kr) => (out.opts = Nil /\ IsErr(out.err))
                 /\ (kr.A = "ecdsa" /\ kr.S = 521) =>
                       out.err = Err("Unsupported ECDSA key size: 521")
                 /\ (kr.A = "ecdsa" /\ kr.S \notin {256, 384, 521}) =>
                       out.err = ErrArg("Invalid ECDSA key size", kr.S)
                 /\ (kr.A = "rsa" /\ ~Supported(kr)) =>
                       out.err = ErrArg("Invalid RSA key size", kr.S)
                 /\ kr.A \notin {"rsa", "ecdsa"} =>
                       out.err = ErrArg("Invalid algorithm", kr.A)

C10_Witness ==
    /\ call.op = "getBCCSPKeyOpts"
    /\ call.in.kr = KeyRequest("ecdsa", 521)
    /\ call.in.ephemeral
    /\ IsErr(call.out.err)

\* the types of the blocks of the call's certificate file, in file order
BlockTypes == [i \in 1..Len(call.in.certFile.blocks) |-> call.in.certFile.blocks[i].type]

\* the call got a readable PEM bundle without a CERTIFICATE block
NoCertificateBlock ==
    /\ call.op = "LoadX509KeyPair"
    /\ call.in.certFile.kind = "pem"
    /\ \A i \in 1..Len(BlockTypes) : BlockTypes[i] # T_CERTIFICATE

\* type ends in the words PRIVATE KEY
EndsInPrivateKey(type) ==
    \E pre \in {<<>>, <<69, 67, 32>>} : type = pre \o T_PRIVATE_KEY

(* C11: LoadX509KeyPair on a PEM bundle without a CERTIFICATE block fails   *)
(* with an error chosen by the skipped blocks: exactly one block, of a type *)
(* ending in PRIVATE KEY, gives 'PEM inputs may have been switched'; no     *)
(* block at all gives 'Failed to find PEM block'; every other combination   *)
(* (two or more private-key blocks included) gives the error naming the     *)
(* skipped types; and the key store is not consulted.                       *)
C11_NoCertificateClassification ==
    NoCertificateBlock =>
        /\ call.kind = "return"
        /\ call.out.cert = Nil
        /\ IF Len(BlockTypes) = 0
           THEN call.out.err = Err("Failed to find PEM block in file")
           ELSE IF Len(BlockTypes) = 1 /\ EndsInPrivateKey(BlockTypes[1])
           THEN call.out.err = Err("Failed to find certificate PEM data in file, but did find a private key; PEM inputs may have been switched")
           ELSE call.out.err =
                  ErrArg("Failed to find CERTIFICATE PEM block in file after skipping PEM blocks of the following types",
                         BlockTypes)
        /\ call.trace = <<Ev("ReadFile", "certFile", TRUE)>>
        /\ ks = call.before

\* two private-key blocks and no certificate: the error names the types
C11_Witness ==
    /\ NoCertificateBlock
    /\ call.in.csp # Nil
    /\ BlockTypes = <<T_EC_PRIVATE_KEY, T_PRIVATE_KEY>>
    /\ call.out.err.msg = "Failed to find CERTIFICATE PEM block in file after skipping PEM blocks of the following types"

\* what the Params-only path does for the call's certificate file
ParamsPath == BccspBackedCPABEParams(call.in.certFile, call.in.csp, call.before)

IsMasterKeyCall == call.op = "BccspBackedCPABEMasterKey" /\ call.in.csp # Nil

\* the call begins with the calls of the Params-only path
C12_ParamsPathFirst ==
    /\ Len(call.trace) >= Len(ParamsPath.trace)
    /\ SubSeq(call.trace, 1, Len(ParamsPath.trace)) = ParamsPath.trace

\* with Params obtained: one query, by the Params identifier, whose result is
\* returned
C12_OneQueryByParamsIdentifier ==
    (~IsErr(ParamsPath.res.err) /\ ParamsPath.res.key # Nil) =>
        /\ call.kind = "return"
        /\ Cardinality(Events("GetKey")) = 1
        /\ \A i \in Events("GetKey") :
              /\ i = Len(call.trace)
              /\ call.trace[i].arg = Sha256(cpabeParamsBytes(ParamsPath.res.key).raw)
              /\ call.out.key = call.trace[i].res
              /\ IsErr(call.out.err) = ~call.trace[i].ok

\* without a Params extension: no key, no error, no query
C12_NoParamsNoQuery ==
    (call.in.certFile.kind = "cert" /\ ~HasParamsExt(call.in.certFile)) =>
        /\ call.kind = "return"
        /\ call.out = KeyErr(Nil, NoErr)
        /\ Events("GetKey") = {}

\* the Params-only path failed: its error is returned, no query
C12_ParamsErrorNoQuery ==
    IsErr(ParamsPath.res.err) =>
        /\ call.kind = "return"
        /\ call.out = KeyErr(Nil, Wrap("backed cpabe params error", ParamsPath.res.err))
        /\ Events("GetKey") = {}

(* C12: BccspBackedCPABEMasterKey, called with a key-store handle, first    *)
(* obtains Params through the Params-only path; when Params were obtained   *)
(* it issues exactly one GetKey query, by the Params identifier (SHA-256 of *)
(* the Params bytes), and returns that query's result; without a Params     *)
(* extension it returns no key and no error and makes no query; when the    *)
(* Params-only path fails it returns that error and makes no query.         *)
C12_MasterKeyLookupByParamsIdentifier ==
    IsMasterKeyCall =>
        /\ C12_ParamsPathFirst
        /\ C12_OneQueryByParamsIdentifier
        /\ C12_NoParamsNoQuery
        /\ C12_ParamsErrorNoQuery

\* the attribute private key the engine generates for params and the
\* AttributeIDs ids (core.Generate, wrapped as the PrivateKey variant); d is
\* the key material
GeneratedPrivateKey(params, ids, d) ==
    cpabePrivateKey([kind |-> "Key", param |-> params, attributeId |-> ids,
                     d |-> d, unencodable |-> FALSE])

\* the Params payload and the attribute map of the call's certificate
C13_ParamsBytes == FindParams(call.in.certFile.exts, Nil).bytes

C13_Attrs == AttrsOfCert(call.in.certFile)

\* the canonical AttributeIDs of the certificate's attributes
C13_AttributeIDs ==
    [i \in 1..Len(CanonicalStrings(C13_Attrs)) |->
        HashInt32(CanonicalStrings(C13_Attrs)[i])]

\* the key generated for the certificate's Params and attributes
C13_Key ==
    GeneratedPrivateKey(KeyImportParams(C13_ParamsBytes).key.params,
                        C13_AttributeIDs, <<3>>)

\* the identifier the call passed to GetKey
C13_LookupIdentifier == call.trace[CHOOSE i \in Events("GetKey") : TRUE].arg

\* the call derived an identifier from a certificate with Params that decode
C13_IsLookup ==
    /\ IsCertCall("BccspBackedCPABEPrivateKey")
    /\ HasParamsExt(call.in.certFile)
    /\ Events("GetKey") # {}
    /\ ~IsErr(KeyImportParams(C13_ParamsBytes).err)

(* C13: the identifier BccspBackedCPABEPrivateKey computes from the         *)
(* certificate (hash of the Params bytes followed by the 4-byte big-endian  *)
(* AttributeIDs) equals SKI() of the private key generated for the same     *)
(* Params and AttributeIDs (hash of the key's serialization), so that key,  *)
(* stored under its own SKI(), is found by the certificate-derived lookup.  *)
C13_GenerationAndLookupIdentifiersAgree ==
    C13_IsLookup =>
        /\ cpabePrivateKeySKI(C13_Key).kind = "return"
        /\ cpabePrivateKeySKI(C13_Key).ski = C13_LookupIdentifier
        /\ GetKey(call.before \cup {C13_Key}, C13_LookupIdentifier, "private").key
             = C13_Key

====
